---- MODULE Spec2Model ----
(***************************************************************************)
(* Model of src/2conll_to_dep.ipynb: parse_conll (CoNLL-U text to a token  *)
(* table) and calc_mdd (mean dependency distance of a token table).        *)
(*                                                                         *)
(* A token table (pandas data frame) is a sequence of rows; a row is a     *)
(* record with the columns the code reads: docid, sentid, id, upos, head.  *)
(* calc_mdd is a straight-line function; its statements are the actions    *)
(* Filter, NewId, Merge, Dd and the two branches of the aggregation.        *)
(***************************************************************************)
EXTENDS Integers, Sequences, FiniteSets, TLC

VARIABLES
    doc_df,       \* the table handed to calc_mdd (parameter d on entry)
    d,            \* calc_mdd's local d, rewritten by each statement
    by_sentence,  \* calc_mdd's parameter
    agg,          \* the returned frame, a sequence of rows
    pc,           \* the statement calc_mdd executes next
    data,         \* parse_conll: the rows collected so far
    doc_ids,      \* parse_conll: the document ids seen so far
    sentence_ids, \* parse_conll: the sentence ids of the current document
    lines,        \* parse_conll: the lines the loop has consumed, in order
    nread,        \* parse_conll: the number of lines the loop has consumed
    ret           \* parse_conll: how the call stands or ended, and its frame

calc_vars == <<doc_df, d, by_sentence, agg, pc>>
parse_vars == <<data, doc_ids, sentence_ids, lines, nread, ret>>
vars == <<doc_df, d, by_sentence, agg, pc,
          data, doc_ids, sentence_ids, lines, nread, ret>>

-----------------------------------------------------------------------------
(* Bounds of the enumerated inputs.                                         *)

\* rows of a freely enumerated table
MaxRows == 3
\* tokens of one sentence of an enumerated well-formed document
MaxSentLen == 3
\* lines of the text given to parse_conll
MaxLines == 5

-----------------------------------------------------------------------------
(* Values.                                                                  *)

\* pandas' missing value: new_head of a row the left merge did not match,
\* and the dd computed from it
NaN == -1

\* the order pandas sorts group keys in (groupby sort=True): position here
DocOrder == <<"A", "B", "doc1">>
SentOrder == <<"1", "2">>

Rank(x, order) == CHOOSE i \in 1..Len(order) : order[i] = x

\* str.lower() on the upos tags of the model
Lower(s) ==
    CASE s = "PUNCT" -> "punct"
      [] s = "Punct" -> "punct"
      [] s = "punct" -> "punct"
      [] s = "NOUN"  -> "noun"
      [] s = "VERB"  -> "verb"
      [] s = "PRON"  -> "pron"
      [] s = "DET"   -> "det"
      [] s = "AUX"   -> "aux"
      [] s = "ADP"   -> "adp"
      [] OTHER       -> s

Abs(x) == IF x < 0 THEN -x ELSE x

RECURSIVE Gcd(_, _)
Gcd(a, b) == IF b = 0 THEN a ELSE Gcd(b, a % b)

RECURSIVE SumSeq(_)
SumSeq(s) == IF s = <<>> THEN 0 ELSE Head(s) + SumSeq(Tail(s))

\* float division num / den of two non-negative numbers: x/0 is inf, 0/0 is
\* nan, and no exception is raised; a finite quotient is kept in lowest terms
Div(num, den) ==
    IF den = 0
    THEN IF num = 0 THEN [kind |-> "nan", num |-> 0, den |-> 0]
                    ELSE [kind |-> "inf", num |-> 1, den |-> 0]
    ELSE LET g == Gcd(num, den)
         IN  [kind |-> "finite", num |-> num \div g, den |-> den \div g]

-----------------------------------------------------------------------------
(* calc_mdd, statement by statement.                                        *)

KeyOf(r) == <<r.docid, r.sentid>>

\* mutant: the comparison without str.lower()
RemovePunct_CaseSensitive(t) == SelectSeq(t, LAMBDA r : r.upos # "punct")

\* d[d['upos'].str.lower() != 'punct']
RemovePunct(t) == SelectSeq(t, LAMBDA r : Lower(r.upos) # "punct")

\* the keys of groupby(['docid', 'sentid'], sort=False): first appearance
RECURSIVE FirstKeys(_)
FirstKeys(t) ==
    IF t = <<>> THEN <<>>
    ELSE LET k == KeyOf(Head(t))
         IN  <<k>> \o FirstKeys(SelectSeq(Tail(t), LAMBDA r : KeyOf(r) # k))

\* groupby(...).size(): the number of rows of each key, in that order
GroupSizes(t) ==
    [j \in 1..Len(FirstKeys(t)) |->
        Cardinality({i \in 1..Len(t) : KeyOf(t[i]) = FirstKeys(t)[j]})]

\* chain.from_iterable([range(1, l+1) for l in doc_sent_n])
RECURSIVE ChainRanges(_)
ChainRanges(sizes) ==
    IF sizes = <<>> THEN <<>>
    ELSE [i \in 1..Head(sizes) |-> i] \o ChainRanges(Tail(sizes))

\* mutant: no re-indexing, the original id serves as new_id
WithNewId_KeepId(t) ==
    [i \in 1..Len(t) |->
        [docid |-> t[i].docid, sentid |-> t[i].sentid, id |-> t[i].id,
         upos |-> t[i].upos, head |-> t[i].head, new_id |-> t[i].id]]

\* d['new_id'] = list(...): the list is laid on the rows by position
WithNewId(t) ==
    LET ids == ChainRanges(GroupSizes(t))
    IN  [i \in 1..Len(t) |->
            [docid |-> t[i].docid, sentid |-> t[i].sentid, id |-> t[i].id,
             upos |-> t[i].upos, head |-> t[i].head, new_id |-> ids[i]]]

\* ref = d[['docid', 'sentid', 'id', 'new_id']] renamed to head, new_head
RefOf(t) ==
    [i \in 1..Len(t) |->
        [docid |-> t[i].docid, sentid |-> t[i].sentid,
         head |-> t[i].id, new_head |-> t[i].new_id]]

\* mutant: an unmatched row gets new_head 0 (a fillna(0) after the merge)
MergeRow_FillZero(r, ref) ==
    LET m == SelectSeq(ref, LAMBDA x : /\ x.docid = r.docid
                                       /\ x.sentid = r.sentid
                                       /\ x.head = r.head)
    IN  [j \in 1..(IF m = <<>> THEN 1 ELSE Len(m)) |->
            [docid |-> r.docid, sentid |-> r.sentid, id |-> r.id,
             upos |-> r.upos, head |-> r.head, new_id |-> r.new_id,
             new_head |-> IF m = <<>> THEN 0 ELSE m[j].new_head]]

\* mutant: how='inner', an unmatched row is dropped
MergeRow_Inner(r, ref) ==
    LET m == SelectSeq(ref, LAMBDA x : /\ x.docid = r.docid
                                       /\ x.sentid = r.sentid
                                       /\ x.head = r.head)
    IN  [j \in 1..Len(m) |->
            [docid |-> r.docid, sentid |-> r.sentid, id |-> r.id,
             upos |-> r.upos, head |-> r.head, new_id |-> r.new_id,
             new_head |-> m[j].new_head]]

\* the rows a left row yields in pd.merge(how='left'): one per matching row
\* of ref, in ref's order, or a single row with a missing new_head
MergeRow(r, ref) ==
    LET m == SelectSeq(ref, LAMBDA x : /\ x.docid = r.docid
                                       /\ x.sentid = r.sentid
                                       /\ x.head = r.head)
    IN  IF m = <<>>
        THEN << [docid |-> r.docid, sentid |-> r.sentid, id |-> r.id,
                 upos |-> r.upos, head |-> r.head, new_id |-> r.new_id,
                 new_head |-> NaN] >>
        ELSE [j \in 1..Len(m) |->
                [docid |-> r.docid, sentid |-> r.sentid, id |-> r.id,
                 upos |-> r.upos, head |-> r.head, new_id |-> r.new_id,
                 new_head |-> m[j].new_head]]

RECURSIVE MergeLeft(_, _)
MergeLeft(t, ref) ==
    IF t = <<>> THEN <<>>
    ELSE MergeRow(Head(t), ref) \o MergeLeft(Tail(t), ref)

\* (d['new_head'] - d['new_id']).abs(), missing where new_head is missing
DdOf(r) == IF r.new_head = NaN THEN NaN ELSE Abs(r.new_head - r.new_id)

WithDd(t) ==
    [i \in 1..Len(t) |->
        [docid |-> t[i].docid, sentid |-> t[i].sentid, id |-> t[i].id,
         upos |-> t[i].upos, head |-> t[i].head, new_id |-> t[i].new_id,
         new_head |-> t[i].new_head, dd |-> DdOf(t[i])]]

\* agg 'sum' of a column: missing values are skipped
SumDd(t) == SumSeq([i \in 1..Len(t) |-> IF t[i].dd = NaN THEN 0 ELSE t[i].dd])

KeyLess(k1, k2) ==
    \/ Rank(k1[1], DocOrder) < Rank(k2[1], DocOrder)
    \/ /\ k1[1] = k2[1]
       /\ Rank(k1[2], SentOrder) < Rank(k2[2], SentOrder)

\* the elements of a set of (docid, sentid) keys in groupby's sorted order
RECURSIVE SortKeys(_)
SortKeys(S) ==
    IF S = {} THEN <<>>
    ELSE LET k == CHOOSE x \in S : \A y \in S \ {x} : KeyLess(x, y)
         IN  <<k>> \o SortKeys(S \ {k})

RECURSIVE SortDocs(_)
SortDocs(S) ==
    IF S = {} THEN <<>>
    ELSE LET k == CHOOSE x \in S :
                    \A y \in S \ {x} : Rank(x, DocOrder) < Rank(y, DocOrder)
         IN  <<k>> \o SortDocs(S \ {k})

\* by_sentence == True: one row per (docid, sentid)
AggSentence(t) ==
    LET keys == SortKeys({KeyOf(t[i]) : i \in 1..Len(t)})
    IN  [j \in 1..Len(keys) |->
            LET g == SelectSeq(t, LAMBDA r : KeyOf(r) = keys[j])
            IN  [docid |-> keys[j][1], sentid |-> keys[j][2],
                 sum_dd |-> SumDd(g), n_tokens |-> Len(g),
                 mdd |-> Div(SumDd(g), Len(g) - 1)]]

\* mutant: the sentence formula, n_tokens - 1, used for a document
AggDocument_MinusOne(t) ==
    LET docs == SortDocs({t[i].docid : i \in 1..Len(t)})
    IN  [j \in 1..Len(docs) |->
            LET g == SelectSeq(t, LAMBDA r : r.docid = docs[j])
                ns == Cardinality({g[i].sentid : i \in 1..Len(g)})
            IN  [docid |-> docs[j], sum_dd |-> SumDd(g), n_tokens |-> Len(g),
                 n_sents |-> ns, mdd |-> Div(SumDd(g), Len(g) - 1)]]

\* by_sentence == False: one row per docid
AggDocument(t) ==
    LET docs == SortDocs({t[i].docid : i \in 1..Len(t)})
    IN  [j \in 1..Len(docs) |->
            LET g == SelectSeq(t, LAMBDA r : r.docid = docs[j])
                ns == Cardinality({g[i].sentid : i \in 1..Len(g)})
            IN  [docid |-> docs[j], sum_dd |-> SumDd(g), n_tokens |-> Len(g),
                 n_sents |-> ns, mdd |-> Div(SumDd(g), Len(g) - ns)]]

\* calc_mdd as a function of its arguments
CalcMdd(t, bs) ==
    LET w == WithDd(MergeLeft(WithNewId(RemovePunct(t)),
                              RefOf(WithNewId(RemovePunct(t)))))
    IN  IF bs THEN AggSentence(w) ELSE AggDocument(w)

-----------------------------------------------------------------------------
(* parse_conll, line by line. A line is modelled after line.strip() by the  *)
(* branch it takes and what that branch reads from it:                      *)
(*   newdoc_id  '# newdoc id =...'  arg: the text after '# newdoc id = ',   *)
(*              or "" when the line ends at the '='                         *)
(*   newdoc     '# newdoc'                                                  *)
(*   sent_id    '# sent_id =...'    arg as for newdoc_id                    *)
(*   comment    any other line starting with '#'                            *)
(*   blank      the empty line                                              *)
(*   data       any other line      arg: the number of its tab-separated    *)
(*              fields                                                      *)

\* the number of columns of the frame: cols (docid, sentid and ten fields)
NCols == 12

\* Python values of differing types never compare equal (1 != '1'): an id is
\* kept with its type
IntVal(n) == <<"int", n>>
StrVal(x) == <<"str", x>>
NoneVal == <<"None", "">>

Last(s) == s[Len(s)]

\* line.split(sep, 1)[1].strip(): the separator ends with a space that
\* line.strip() has removed when nothing follows the '=', so the list has
\* one element and [1] raises IndexError
SplitFails(line) == line.arg = ""

\* a marker that leaves doc_ids as it was once a document has begun
NewDocIds_KeepFirst(ids, line) ==
    IF ids # <<>> THEN ids
    ELSE IF line.kind = "newdoc_id" THEN <<StrVal(line.arg)>>
    ELSE <<IntVal(1)>>

\* doc_ids after a line of kind newdoc_id or newdoc
NewDocIds(ids, line) ==
    IF line.kind = "newdoc_id" THEN Append(ids, StrVal(line.arg))
    ELSE Append(ids, IntVal(Len(ids) + 1))

\* sentence_ids.append(sent_id) in place of sentence_ids[-1] = sent_id
ReplaceLast_Append(ids, x) == Append(ids, x)

\* sentence_ids[-1] = sent_id
ReplaceLast(ids, x) == [ids EXCEPT ![Len(ids)] = x]

\* the tuple appended for a data line: (doc_id, sentence_ids[-1], *fields)
DataRow(ids, sids, line) ==
    [docid |-> IF ids # <<>> THEN Last(ids) ELSE NoneVal,
     sentid |-> Last(sids),
     nfields |-> line.arg]

RowLen(r) == 2 + r.nfields

\* pd.DataFrame(data, columns=cols): the row tuples are laid into an array
\* as wide as the longest of them, shorter ones filled with missing values;
\* the call raises when that width is not the number of columns
FrameWidth(rows) ==
    IF rows = <<>> THEN NCols
    ELSE CHOOSE w \in {RowLen(rows[i]) : i \in 1..Len(rows)} :
            \A i \in 1..Len(rows) : RowLen(rows[i]) <= w

MakeFrame(rows) ==
    IF FrameWidth(rows) # NCols
    THEN [status |-> "ValueError", rows |-> <<>>]
    ELSE [status |-> "returned", rows |-> rows]

-----------------------------------------------------------------------------
(* Inputs.                                                                  *)

\* the parsed example document of the notebook (columns docid, sentid, id,
\* upos, head; ids and heads as numbers)
Tok(doc, sent, i, u, h) ==
    [docid |-> doc, sentid |-> sent, id |-> i, upos |-> u, head |-> h]

ExampleDoc ==
    << Tok("doc1", "1", 1, "PRON", 2),  Tok("doc1", "1", 2, "VERB", 0),
       Tok("doc1", "1", 3, "DET", 4),   Tok("doc1", "1", 4, "NOUN", 2),
       Tok("doc1", "1", 5, "PUNCT", 2),
       Tok("doc1", "2", 1, "DET", 2),   Tok("doc1", "2", 2, "NOUN", 9),
       Tok("doc1", "2", 3, "PUNCT", 2), Tok("doc1", "2", 4, "PRON", 6),
       Tok("doc1", "2", 5, "PRON", 6),  Tok("doc1", "2", 6, "VERB", 2),
       Tok("doc1", "2", 7, "PUNCT", 9), Tok("doc1", "2", 8, "AUX", 9),
       Tok("doc1", "2", 9, "VERB", 0),  Tok("doc1", "2", 10, "ADP", 11),
       Tok("doc1", "2", 11, "PRON", 9), Tok("doc1", "2", 12, "PUNCT", 9) >>

Keys == { <<"A", "1">>, <<"A", "2">>, <<"B", "1">> }
Upos == { "NOUN", "PUNCT" }

\* a table from a sequence of (key, upos, head) choices: a token's id is its
\* 1-based position among the rows of its own (docid, sentid), as in CoNLL-U
TableOf(shape) ==
    [i \in 1..Len(shape) |->
        Tok(shape[i].key[1], shape[i].key[2],
            Cardinality({j \in 1..i : shape[j].key = shape[i].key}),
            shape[i].upos, shape[i].head)]

\* calc_mdd drops a punctuation row before it reads any head, so of such a
\* row's head only "root or not" is enumerated
RowChoices ==
    { c \in [key : Keys, upos : Upos, head : 0..MaxRows] :
        Lower(c.upos) = "punct" => c.head \in {0, 1} }

Shapes(n) == [1..n -> RowChoices]

\* the head columns of a well-formed sentence of n tokens: exactly one root,
\* every other token governed by another token of the sentence
TreeHeads(n) ==
    { h \in [1..n -> 0..n] :
        /\ Cardinality({i \in 1..n : h[i] = 0}) = 1
        /\ \A i \in 1..n : h[i] # i }

SentenceOf(doc, sent, h) ==
    [i \in 1..Len(h) |-> Tok(doc, sent, i, "NOUN", h[i])]

\* documents of two well-formed sentences, as parse_conll emits them
TwoSentenceDocs ==
    UNION { { SentenceOf("A", "1", h1) \o SentenceOf("A", "2", h2) :
                h1 \in TreeHeads(n[1]), h2 \in TreeHeads(n[2]) } :
            n \in (1..MaxSentLen) \X (1..MaxSentLen) }

-----------------------------------------------------------------------------
(* The state machine.                                                       *)

CalcIdle ==
    /\ doc_df = <<>>
    /\ d = <<>>
    /\ by_sentence = FALSE
    /\ agg = <<>>
    /\ pc = "idle"

ParseIdle ==
    /\ data = <<>>
    /\ doc_ids = <<>>
    /\ sentence_ids = <<>>
    /\ lines = <<>>
    /\ nread = 0
    /\ ret = [status |-> "idle", rows |-> <<>>]

\* a call of calc_mdd on a table
Init ==
    /\ \/ \E n \in 0..MaxRows : \E s \in Shapes(n) : doc_df = TableOf(s)
       \/ doc_df \in TwoSentenceDocs
       \/ doc_df = ExampleDoc
    /\ d = doc_df
    /\ by_sentence = FALSE            \* the parameter's default
    /\ agg = <<>>
    /\ pc = "filter"
    /\ ParseIdle

\* line 391
Filter ==
    /\ pc = "filter"
    /\ d' = RemovePunct(d)
    /\ pc' = "new_id"
    /\ UNCHANGED <<doc_df, by_sentence, agg, parse_vars>>

\* lines 393-394
NewId ==
    /\ pc = "new_id"
    /\ d' = WithNewId(d)
    /\ pc' = "merge"
    /\ UNCHANGED <<doc_df, by_sentence, agg, parse_vars>>

\* lines 397-400
Merge ==
    /\ pc = "merge"
    /\ d' = MergeLeft(d, RefOf(d))
    /\ pc' = "dd"
    /\ UNCHANGED <<doc_df, by_sentence, agg, parse_vars>>

\* line 402
Dd ==
    /\ pc = "dd"
    /\ d' = WithDd(d)
    /\ pc' = "agg"
    /\ UNCHANGED <<doc_df, by_sentence, agg, parse_vars>>

\* lines 403-407, the call made with by_sentence=True
AggBySentence ==
    /\ pc = "agg"
    /\ by_sentence' = TRUE
    /\ agg' = AggSentence(d)
    /\ pc' = "done"
    /\ UNCHANGED <<doc_df, d, parse_vars>>

\* lines 408-413, the call made with by_sentence=False
AggByDocument ==
    /\ pc = "agg"
    /\ by_sentence' = FALSE
    /\ agg' = AggDocument(d)
    /\ pc' = "done"
    /\ UNCHANGED <<doc_df, d, parse_vars>>

Next ==
    \/ Filter
    \/ NewId
    \/ Merge
    \/ Dd
    \/ AggBySentence
    \/ AggByDocument

Spec == Init /\ [][Next]_vars

-----------------------------------------------------------------------------
(* A call of parse_conll: lines 72-75, then the loop, then lines 102-106.   *)

DocNames == {"A"}
SentNames == {"s"}
FieldCounts == {9, 10, 11}

InitParse ==
    /\ CalcIdle
    /\ data = <<>>
    /\ doc_ids = <<>>
    /\ sentence_ids = <<IntVal(1)>>
    /\ lines = <<>>
    /\ nread = 0
    /\ ret = [status |-> "running", rows |-> <<>>]

Reading == ret.status = "running" /\ nread < MaxLines

Raise(exc) == ret' = [status |-> exc, rows |-> <<>>]

\* lines 80-83
LineNewdocId ==
    /\ Reading
    /\ \E a \in DocNames \cup {""} :
          LET line == [kind |-> "newdoc_id", arg |-> a]
          IN  /\ lines' = Append(lines, line)
              /\ IF SplitFails(line)
                 THEN /\ Raise("IndexError")
                      /\ UNCHANGED <<doc_ids, sentence_ids>>
                 ELSE /\ doc_ids' = NewDocIds(doc_ids, line)
                      /\ sentence_ids' = <<IntVal(1)>>
                      /\ UNCHANGED ret
    /\ nread' = nread + 1
    /\ UNCHANGED <<data, calc_vars>>

\* lines 84-86
LineNewdoc ==
    /\ Reading
    /\ doc_ids' = NewDocIds(doc_ids, [kind |-> "newdoc", arg |-> ""])
    /\ sentence_ids' = <<IntVal(1)>>
    /\ lines' = Append(lines, [kind |-> "newdoc", arg |-> ""])
    /\ nread' = nread + 1
    /\ UNCHANGED <<data, ret, calc_vars>>

\* lines 87-90
LineSentId ==
    /\ Reading
    /\ \E a \in SentNames \cup {""} :
          LET line == [kind |-> "sent_id", arg |-> a]
          IN  /\ lines' = Append(lines, line)
              /\ IF SplitFails(line)
                 THEN /\ Raise("IndexError")
                      /\ UNCHANGED sentence_ids
                 ELSE /\ sentence_ids' = ReplaceLast(sentence_ids, StrVal(line.arg))
                      /\ UNCHANGED ret
    /\ nread' = nread + 1
    /\ UNCHANGED <<data, doc_ids, calc_vars>>

\* lines 91-92
LineComment ==
    /\ Reading
    /\ lines' = Append(lines, [kind |-> "comment", arg |-> ""])
    /\ nread' = nread + 1
    /\ UNCHANGED <<data, doc_ids, sentence_ids, ret, calc_vars>>

\* lines 94-95
LineBlank ==
    /\ Reading
    /\ sentence_ids' = Append(sentence_ids, IntVal(Len(sentence_ids) + 1))
    /\ lines' = Append(lines, [kind |-> "blank", arg |-> ""])
    /\ nread' = nread + 1
    /\ UNCHANGED <<data, doc_ids, ret, calc_vars>>

\* lines 97-99
LineData ==
    /\ Reading
    /\ \E n \in FieldCounts :
          LET line == [kind |-> "data", arg |-> n]
          IN  /\ data' = Append(data, DataRow(doc_ids, sentence_ids, line))
              /\ lines' = Append(lines, line)
    /\ nread' = nread + 1
    /\ UNCHANGED <<doc_ids, sentence_ids, ret, calc_vars>>

\* lines 101-106, once the loop has consumed the last line of the text
EndOfText ==
    /\ ret.status = "running"
    /\ nread >= 1
    /\ ret' = MakeFrame(data)
    /\ UNCHANGED <<data, doc_ids, sentence_ids, lines, nread, calc_vars>>

NextParse ==
    \/ LineNewdocId
    \/ LineNewdoc
    \/ LineSentId
    \/ LineComment
    \/ LineBlank
    \/ LineData
    \/ EndOfText

SpecParse == InitParse /\ [][NextParse]_vars

-----------------------------------------------------------------------------
(* What the claims speak of, stated on the input table alone.               *)

IsKept(r) == Lower(r.upos) # "punct"

KeptIdx(t) == {i \in 1..Len(t) : IsKept(t[i])}

\* r(t): the 1-based rank of row i among the kept rows of its own sentence
RankKept(t, i) ==
    Cardinality({j \in 1..i : KeyOf(t[j]) = KeyOf(t[i]) /\ IsKept(t[j])})

\* the rows of row i's sentence whose id is row i's head
HeadRows(t, i) ==
    {j \in 1..Len(t) : KeyOf(t[j]) = KeyOf(t[i]) /\ t[j].id = t[i].head}

\* a kept row whose head names a row of its sentence that the filter removes
Dangling(t, i) ==
    /\ IsKept(t[i])
    /\ t[i].head # 0
    /\ HeadRows(t, i) # {}
    /\ \A j \in HeadRows(t, i) : ~IsKept(t[j])

GroupsAdjacent(t) ==
    \A i, j, k \in 1..Len(t) :
        (i < j /\ j < k /\ KeyOf(t[i]) = KeyOf(t[k])) => KeyOf(t[j]) = KeyOf(t[i])

IdsDistinct(t) ==
    \A i, j \in 1..Len(t) :
        (i # j /\ KeyOf(t[i]) = KeyOf(t[j])) => t[i].id # t[j].id

OneRoot(t) ==
    \A i \in 1..Len(t) :
        Cardinality({j \in 1..Len(t) :
                        KeyOf(t[j]) = KeyOf(t[i]) /\ t[j].head = 0}) = 1

\* the tables C1 speaks of; r(head) is defined for every kept non-root token
ValidTable(t) ==
    /\ GroupsAdjacent(t)
    /\ IdsDistinct(t)
    /\ OneRoot(t)
    /\ \A i \in KeptIdx(t) :
          t[i].head # 0 => \E j \in HeadRows(t, i) : IsKept(t[j])

\* |r(head) - r(token)| of a kept row, 0 for the root
ExpDd(t, i) ==
    IF t[i].head = 0 THEN 0
    ELSE LET j == CHOOSE x \in HeadRows(t, i) : IsKept(t[x])
         IN  Abs(RankKept(t, j) - RankKept(t, i))

\* the rows of a sentence, and of a document
SentIdx(t, k) == {i \in 1..Len(t) : KeyOf(t[i]) = k}
DocIdx(t, doc) == {i \in 1..Len(t) : t[i].docid = doc}

\* the expected sum_dd and n_tokens over the kept rows among the rows S
ExpSum(t, S) ==
    SumSeq([i \in 1..Len(t) |->
              IF IsKept(t[i]) /\ i \in S THEN ExpDd(t, i) ELSE 0])

ExpCount(t, S) == Cardinality(KeptIdx(t) \cap S)

ExpSents(t, doc) == {t[i].sentid : i \in {j \in KeptIdx(t) : t[j].docid = doc}}

\* the new_id values of the rows of key k, in row order
NewIdsOf(t, k) ==
    LET g == SelectSeq(t, LAMBDA r : KeyOf(r) = k)
    IN  [i \in 1..Len(g) |-> g[i].new_id]

\* what one row adds to sum_dd
Contribution(r) == SumDd(<<r>>)

\* the rows of a table that belong to a sentence, and to a document
SentRows(t, k) == SelectSeq(t, LAMBDA r : KeyOf(r) = k)
DocRows(t, doc) == SelectSeq(t, LAMBDA r : r.docid = doc)

\* the table with its punctuation rows deleted and the ids and heads of the
\* other rows renumbered to match: a head of 0 stays 0, the head of a kept
\* governor becomes the governor's new id, and a head that named no kept row
\* names none afterwards (one more than the sentence's kept tokens)
StrippedHead(t, i) ==
    IF t[i].head = 0 THEN 0
    ELSE IF \E j \in HeadRows(t, i) : IsKept(t[j])
         THEN RankKept(t, CHOOSE j \in HeadRows(t, i) : IsKept(t[j]))
         ELSE 1 + Cardinality({j \in KeptIdx(t) : KeyOf(t[j]) = KeyOf(t[i])})

Stripped(t) ==
    LET idx == SelectSeq([i \in 1..Len(t) |-> i], LAMBDA i : IsKept(t[i]))
    IN  [n \in 1..Len(idx) |->
            Tok(t[idx[n]].docid, t[idx[n]].sentid, RankKept(t, idx[n]),
                t[idx[n]].upos, StrippedHead(t, idx[n]))]

\* the sum of a sequence of fractions, as a fraction
RECURSIVE RatSum(_)
RatSum(s) ==
    IF s = <<>> THEN [num |-> 0, den |-> 1]
    ELSE LET r == RatSum(Tail(s))
         IN  [num |-> Head(s).num * r.den + r.num * Head(s).den,
              den |-> Head(s).den * r.den]

\* the per-sentence rows of a document, from the table calc_mdd aggregates
SentenceRows(t, doc) == AggSentence(DocRows(t, doc))

\* whether a finite document mdd equals the arithmetic mean of the
\* per-sentence mdd values as floats: a mean over a nan or inf is nan or inf
EqualsMeanOfSentenceMdd(m, rows) ==
    /\ \A j \in 1..Len(rows) : rows[j].mdd.kind = "finite"
    /\ LET sum == RatSum([j \in 1..Len(rows) |-> rows[j].mdd])
       IN  m.num * sum.den * Len(rows) = sum.num * m.den

-----------------------------------------------------------------------------
(* Claims.                                                                  *)

C2_IndexContiguity ==
    pc = "merge" =>
        \A i \in 1..Len(d) :
            LET ids == NewIdsOf(d, KeyOf(d[i]))
            IN  ids = [n \in 1..Len(ids) |-> n]

\* C3: a kept token whose head is 0 adds nothing to sum_dd, whatever new_id
\* it was given; the merge finds no row for head 0 (ids start at 1), so its
\* dd is missing and the sum skips it.
C3_RootZeroDistance ==
    pc \in {"agg", "done"} =>
        \A i \in 1..Len(d) : d[i].head = 0 => Contribution(d[i]) = 0

\* C3 witness: a root that is not the first kept token of its sentence, in a
\* sentence with a token that does add to sum_dd
C3_Witness ==
    /\ pc = "done"
    /\ \E i, j \in 1..Len(d) :
          /\ d[i].head = 0 /\ d[i].new_id > 1
          /\ KeyOf(d[j]) = KeyOf(d[i]) /\ Contribution(d[j]) > 0

\* C4: for a document of several sentences, calc_mdd(by_sentence=True) on
\* the rows of one sentence alone returns that sentence's row of the call on
\* the whole document.
C4_SubsetRoundTrip ==
    (/\ pc = "done" /\ by_sentence
     /\ Cardinality({doc_df[i].docid : i \in 1..Len(doc_df)}) = 1
     /\ Cardinality({doc_df[i].sentid : i \in 1..Len(doc_df)}) > 1) =>
        \A j \in 1..Len(agg) :
            CalcMdd(SentRows(doc_df, <<agg[j].docid, agg[j].sentid>>), TRUE)
                = <<agg[j]>>

\* C5: deleting the punctuation rows of the input, with ids and heads
\* renumbered to match (equally: inserting them into the stripped table),
\* changes neither the sum_dd of any row of the result nor the new_id given
\* to each kept token.
C5_PunctuationExclusion ==
    /\ pc = "merge" =>
          LET other == WithNewId(RemovePunct(Stripped(doc_df)))
          IN  [i \in 1..Len(d) |-> d[i].new_id]
                 = [i \in 1..Len(other) |-> other[i].new_id]
    /\ pc = "done" =>
          LET other == CalcMdd(Stripped(doc_df), by_sentence)
          IN  /\ Len(agg) = Len(other)
              /\ \A j \in 1..Len(agg) :
                    /\ agg[j].docid = other[j].docid
                    /\ by_sentence => agg[j].sentid = other[j].sentid
                    /\ agg[j].sum_dd = other[j].sum_dd

\* C5 witness: a punctuation row stands between a kept token and its kept
\* governor, so the ids of the input have a gap the distance must not count
C5_Witness ==
    /\ pc = "done"
    /\ \E i, p, h \in 1..Len(doc_df) :
          /\ KeyOf(doc_df[i]) = KeyOf(doc_df[p])
          /\ KeyOf(doc_df[i]) = KeyOf(doc_df[h])
          /\ i < p /\ p < h
          /\ IsKept(doc_df[i]) /\ ~IsKept(doc_df[p]) /\ IsKept(doc_df[h])
          /\ doc_df[i].head = doc_df[h].id
          /\ GroupsAdjacent(doc_df)
    /\ \E j \in 1..Len(agg) : agg[j].sum_dd > 0

C7_DegenerateSignalled ==
    pc = "done" =>
        \A j \in 1..Len(agg) :
            (agg[j].n_tokens - (IF by_sentence THEN 1 ELSE agg[j].n_sents) <= 0)
                => agg[j].mdd.kind \notin {"nan", "inf"}

\* C9 as stated: a document row's mdd is sum_dd / (n_tokens - n_sents), and
\* whenever the document has two or more sentences whose kept-token counts
\* differ it differs from the arithmetic mean of the per-sentence mdd values.
C9_DiffersFromMeanOfMeans ==
    (pc = "done" /\ ~by_sentence) =>
        \A j \in 1..Len(agg) :
            LET rows == SentenceRows(d, agg[j].docid)
            IN  /\ agg[j].mdd
                     = Div(agg[j].sum_dd, agg[j].n_tokens - agg[j].n_sents)
                /\ (\E a, b \in 1..Len(rows) :
                        rows[a].n_tokens # rows[b].n_tokens)
                      => ~EqualsMeanOfSentenceMdd(agg[j].mdd, rows)

\* C9 as amended: a document row's mdd is sum_dd / (n_tokens - n_sents),
\* with sum_dd the sum of its sentences' sum_dd and n_tokens - n_sents the
\* sum of their n_tokens - 1; for a document of two sentences of differing
\* kept-token counts, each of 2 or more, it differs from the arithmetic mean
\* of the two per-sentence mdd values exactly when those two values differ.
C9_DocumentMdd ==
    (pc = "done" /\ ~by_sentence) =>
        \A j \in 1..Len(agg) :
            LET rows == SentenceRows(d, agg[j].docid)
            IN  /\ agg[j].mdd
                     = Div(agg[j].sum_dd, agg[j].n_tokens - agg[j].n_sents)
                /\ agg[j].sum_dd
                     = SumSeq([s \in 1..Len(rows) |-> rows[s].sum_dd])
                /\ agg[j].n_tokens - agg[j].n_sents
                     = SumSeq([s \in 1..Len(rows) |-> rows[s].n_tokens - 1])
                /\ (/\ Len(rows) = 2
                    /\ rows[1].n_tokens # rows[2].n_tokens
                    /\ rows[1].n_tokens >= 2 /\ rows[2].n_tokens >= 2)
                      => (EqualsMeanOfSentenceMdd(agg[j].mdd, rows)
                            <=> rows[1].mdd = rows[2].mdd)

\* C9 witness: a document of a 2-token and a 3-token sentence whose
\* per-sentence mdd values differ, and whose mdd is not their mean
C9_Witness ==
    /\ pc = "done" /\ ~by_sentence
    /\ \E j \in 1..Len(agg) :
          LET rows == SentenceRows(d, agg[j].docid)
          IN  /\ Len(rows) = 2
              /\ rows[1].n_tokens = 2 /\ rows[2].n_tokens = 3
              /\ rows[1].mdd # rows[2].mdd
              /\ agg[j].mdd.kind = "finite"
              /\ ~EqualsMeanOfSentenceMdd(agg[j].mdd, rows)

\* C10: the rows calc_mdd returns for a document are those it returns for
\* the table holding that document's rows alone, at both granularities.
C10_DocumentIsolation ==
    pc = "done" =>
        \A i \in 1..Len(doc_df) :
            LET X == doc_df[i].docid
            IN  DocRows(agg, X) = CalcMdd(DocRows(doc_df, X), by_sentence)

\* C8: a text with a data line that does not split into exactly 10 fields
\* makes parse_conll fail; it returns no table for that text, neither a
\* partial one nor one holding a token built from the malformed line.
C8_MalformedRejected ==
    (\E i \in 1..Len(data) : data[i].nfields # 10) => ret.status # "returned"

-----------------------------------------------------------------------------
(* parse_conll's tags, read off the consumed lines alone.                   *)

Markers == {"newdoc_id", "newdoc"}

\* the index of the latest line before line k whose kind is in kinds, or 0
LatestBefore(k, kinds) ==
    LET J == {j \in 1..(k - 1) : lines[j].kind \in kinds}
    IN  IF J = {} THEN 0 ELSE CHOOSE j \in J : \A i \in J : i <= j

\* the blank lines strictly between lines m and k
BlanksBetween(m, k) ==
    Cardinality({j \in (m + 1)..(k - 1) : lines[j].kind = "blank"})

\* the default counter value at line k: 1 + the blank lines read since the
\* latest document marker or the start of the input
DefaultSent(k) == IntVal(1 + BlanksBetween(LatestBefore(k, Markers), k))

\* the '# sent_id =' line in force at line k: the latest one read since the
\* current sentence began (latest blank line or document marker), or 0
SentIdInForce(k) ==
    LET s == LatestBefore(k, {"sent_id"})
    IN  IF s > LatestBefore(k, Markers \cup {"blank"}) THEN s ELSE 0

\* the sentence id current at line k
ExpSentId(k) ==
    IF SentIdInForce(k) # 0 THEN StrVal(lines[SentIdInForce(k)].arg)
    ELSE DefaultSent(k)

\* the document id current at line k: that of the latest marker, a '# newdoc'
\* line counting the markers read up to it
ExpDocId(k) ==
    LET m == LatestBefore(k, Markers)
    IN  IF m = 0 THEN NoneVal
        ELSE IF lines[m].kind = "newdoc_id" THEN StrVal(lines[m].arg)
        ELSE IntVal(Cardinality({j \in 1..m : lines[j].kind \in Markers}))

DataLines == {k \in 1..Len(lines) : lines[k].kind = "data"}

\* the position among the emitted tokens of the token of data line k
RowOfLine(k) == Cardinality({j \in 1..k : lines[j].kind = "data"})

\* C11: a '# sent_id = <id>' line changes only the id of the current
\* sentence: every token, whenever it was emitted, carries the <id> of the
\* '# sent_id =' line in force at its data line, or the default counter value
\* when none is; and while the parse runs the id the next data line would get
\* is again the default counter value (1 + the blank lines read since the
\* latest document marker or the start of the input) once a blank line has
\* started a new sentence.
C11_SentIdOverride ==
    /\ \A k \in DataLines :
          /\ RowOfLine(k) <= Len(data)
          /\ data[RowOfLine(k)].sentid = ExpSentId(k)
    /\ ret.status = "running" =>
          /\ Last(sentence_ids) = ExpSentId(Len(lines) + 1)
          /\ Len(sentence_ids) = DefaultSent(Len(lines) + 1)[2]

\* C11 witness: a token emitted before a '# sent_id = s' line kept the
\* default id 1, a token read after that line is tagged "s", and a token of
\* the sentence started by the next blank line is tagged 2, not "s"
C11_Witness ==
    \E k1, s, k2, b, k3 \in 1..Len(lines) :
        /\ k1 < s /\ s < k2 /\ k2 < b /\ b < k3
        /\ lines[k1].kind = "data" /\ lines[k2].kind = "data"
        /\ lines[k3].kind = "data"
        /\ lines[s].kind = "sent_id" /\ lines[b].kind = "blank"
        /\ data[RowOfLine(k1)].sentid = IntVal(1)
        /\ data[RowOfLine(k2)].sentid = StrVal(lines[s].arg)
        /\ data[RowOfLine(k3)].sentid = IntVal(2)

\* data line k is the first kind of line the claim speaks of: a document
\* marker precedes it with no blank line or '# sent_id =' line in between
FreshAfterMarker(k) ==
    /\ LatestBefore(k, Markers) # 0
    /\ LatestBefore(k, {"blank", "sent_id"}) < LatestBefore(k, Markers)

\* C12: every document marker resets the sentence counter: a data line that
\* follows a marker with no blank line or '# sent_id =' line in between is
\* tagged with sentence id 1 and the new document's id; and the data lines
\* read so far have emitted exactly one token each, in input order, each
\* tagged with the document id and sentence id current at its line; the
\* table parse_conll returns holds exactly those tokens.
C12_MarkerReset ==
    /\ Len(data) = Cardinality(DataLines)
    /\ \A k \in DataLines :
          LET r == data[RowOfLine(k)]
          IN  /\ r.nfields = lines[k].arg
              /\ r.docid = ExpDocId(k)
              /\ r.sentid = ExpSentId(k)
              /\ FreshAfterMarker(k) => r.sentid = IntVal(1)
    /\ ret.status = "returned" => ret.rows = data

\* C12 witness: the sentence counter stood above 1 (a blank line was read
\* and a token tagged 2) when a document marker came, and the data line
\* after the marker is tagged with sentence id 1 and the marker's document
C12_Witness ==
    \E k1, m, k2 \in 1..Len(lines) :
        /\ k1 < m /\ m < k2
        /\ lines[k1].kind = "data" /\ lines[k2].kind = "data"
        /\ lines[m].kind \in Markers
        /\ data[RowOfLine(k1)].sentid = IntVal(2)
        /\ FreshAfterMarker(k2) /\ LatestBefore(k2, Markers) = m
        /\ data[RowOfLine(k2)].sentid = IntVal(1)
        /\ data[RowOfLine(k2)].docid # data[RowOfLine(k1)].docid

====
